---------------------------- MODULE Spec2Model ----------------------------
(***************************************************************************)
(* A model of the MAWB audit analyzer: src/src/helpers.py (identifier      *)
(* normalisation, allow-list parsing, zero-safe ratios) and                *)
(* src/src/audit.py (run_audit: filter, ETA join, per-identifier summary,  *)
(* classification, exception typing, rollups, KPIs).                       *)
(*                                                                         *)
(* Text is modelled as a sequence of one-character strings, so that        *)
(* trimming, upper-casing, stripping and splitting are computed as the     *)
(* code computes them.  Amounts are integers; a ratio is an exact          *)
(* fraction [num, den] with den > 0; a threshold is an integer number of   *)
(* hundredths (0.30 is 30).                                                *)
(***************************************************************************)
EXTENDS Integers, Sequences, FiniteSets, TLC

VARIABLES
    nm_pc, nm_x, nm_out, nm_out2,      \* normalize_mawb applied once, then again
    pl_pc, pl_text, pl_out,            \* parse_mawb_list applied to a text
    pc,                                \* where run_audit stands
    billing_file, eta_file, mawb_text, low_thr, high_thr,   \* run_audit's arguments
    df,                                \* the billing lines, as run_audit holds them
    mawb_keep, mawb_not_found,         \* the allow-list and its identifiers not found
    eta_map, eta_parse_note,           \* the identifier -> ETA mapping, and the note
    summary,                           \* the per-identifier summary
    views,                             \* the rollups and the bucket views
    kpi,                               \* the KPI numbers
    error                              \* the message of the ValueError raised, or ""

nm_vars == <<nm_pc, nm_x, nm_out, nm_out2>>

pl_vars == <<pl_pc, pl_text, pl_out>>

in_vars == <<billing_file, eta_file, mawb_text, low_thr, high_thr>>

au_vars ==
    <<pc, in_vars, df, mawb_keep, mawb_not_found, eta_map, eta_parse_note,
      summary, views, kpi, error>>

vars == <<nm_vars, pl_vars, au_vars>>

-----------------------------------------------------------------------------
(* Characters and Python's str primitives                                  *)

Digits == {"0", "1", "2", "3", "4", "5", "6", "7", "8", "9"}

UpperSeq == << "A", "B", "C", "D", "E", "F", "G", "H", "I", "J", "K", "L", "M",
               "N", "O", "P", "Q", "R", "S", "T", "U", "V", "W", "X", "Y", "Z" >>

LowerSeq == << "a", "b", "c", "d", "e", "f", "g", "h", "i", "j", "k", "l", "m",
               "n", "o", "p", "q", "r", "s", "t", "u", "v", "w", "x", "y", "z" >>

Uppers == {UpperSeq[i] : i \in DOMAIN UpperSeq}

Lowers == {LowerSeq[i] : i \in DOMAIN LowerSeq}

\* The characters \s matches among those the model uses.
Whitespace == {" ", "\t", "\n"}

\* The characters of the model in code-point order (Python compares strings
\* code point by code point).
AsciiOrder == << "\t", "\n", " ", ",", "-", ".", "/" >>
              \o << "0", "1", "2", "3", "4", "5", "6", "7", "8", "9" >>
              \o UpperSeq \o << "_" >> \o LowerSeq

OrdOf == [c \in {AsciiOrder[i] : i \in DOMAIN AsciiOrder} |->
             CHOOSE i \in DOMAIN AsciiOrder : AsciiOrder[i] = c]

Ord(c) == OrdOf[c]

\* None is not a string: it is the one-element sequence holding a token that
\* is no character.
NoneVal == << "None" >>

ToUpper == [c \in Lowers |-> UpperSeq[CHOOSE i \in DOMAIN LowerSeq : LowerSeq[i] = c]]

ToLower == [c \in Uppers |-> LowerSeq[CHOOSE i \in DOMAIN UpperSeq : UpperSeq[i] = c]]

\* str.upper() on one character
UpperChar(c) == IF c \in Lowers THEN ToUpper[c] ELSE c

\* str.lower() on one character
LowerChar(c) == IF c \in Uppers THEN ToLower[c] ELSE c

upper(s) == [i \in DOMAIN s |-> UpperChar(s[i])]

lower(s) == [i \in DOMAIN s |-> LowerChar(s[i])]

\* str.strip(): drop the leading and the trailing whitespace
strip(s) ==
    IF s = << >> THEN << >>
    ELSE IF s[1] \notin Whitespace /\ s[Len(s)] \notin Whitespace THEN s
    ELSE LET keep == {i \in DOMAIN s : s[i] \notin Whitespace}
         IN  IF keep = {} THEN << >>
             ELSE LET lo == CHOOSE i \in keep : \A j \in keep : i <= j
                      hi == CHOOSE i \in keep : \A j \in keep : j <= i
                  IN  SubSeq(s, lo, hi)

\* str.isdigit(): non-empty and every character a digit
isdigit(s) == Len(s) > 0 /\ \A i \in DOMAIN s : s[i] \in Digits

IsAlnumUpper(c) == c \in Digits \cup Uppers

\* re.sub(r"[^0-9A-Z]", "", s)
StripNonAlnum(s) == SelectSeq(s, IsAlnumUpper)

\* Python's < on strings
RECURSIVE StrLess(_, _)
StrLess(a, b) ==
    IF b = << >> THEN FALSE
    ELSE IF a = << >> THEN TRUE
    ELSE IF Head(a) = Head(b) THEN StrLess(Tail(a), Tail(b))
    ELSE Ord(Head(a)) < Ord(Head(b))

-----------------------------------------------------------------------------
(* helpers.normalize_mawb                                                  *)

MawbDigits == 11

MawbDigitsLong == 12

MawbPrefixLen == 3

Hyphenate(s11) ==
    SubSeq(s11, 1, MawbPrefixLen) \o << "-" >> \o SubSeq(s11, MawbPrefixLen + 1, Len(s11))

\* normalize_mawb keeping the first 11 of 12 digits instead of the last 11
normalize_mawb_first11(x) ==
    IF x = NoneVal THEN << >>
    ELSE LET s == upper(strip(x))
         IN  IF s = << >> \/ s \in { <<"N", "A", "N">>, <<"N", "O", "N", "E">> }
             THEN << >>
             ELSE LET s_alnum == StripNonAlnum(s)
                  IN  IF isdigit(s_alnum) /\ Len(s_alnum) = MawbDigits
                      THEN Hyphenate(s_alnum)
                      ELSE IF isdigit(s_alnum) /\ Len(s_alnum) = MawbDigitsLong
                      THEN Hyphenate(SubSeq(s_alnum, 1, MawbDigits))
                      ELSE s_alnum

normalize_mawb(x) ==
    IF x = NoneVal THEN << >>
    ELSE LET s == upper(strip(x))
         IN  IF s = << >> \/ s \in { <<"N", "A", "N">>, <<"N", "O", "N", "E">> }
             THEN << >>
             ELSE LET s_alnum == StripNonAlnum(s)
                  IN  IF isdigit(s_alnum) /\ Len(s_alnum) = MawbDigits
                      THEN Hyphenate(s_alnum)
                      ELSE IF isdigit(s_alnum) /\ Len(s_alnum) = MawbDigitsLong
                      THEN Hyphenate(SubSeq(s_alnum, Len(s_alnum) - MawbDigits + 1, Len(s_alnum)))
                      ELSE s_alnum


-----------------------------------------------------------------------------
(* helpers.parse_mawb_list                                                 *)

IsDelim(c) == c = "," \/ c \in Whitespace

\* re.split(r"[,\s]+", s): the pieces between the runs of delimiters; a run at
\* the start or at the end of s leaves an empty piece there.
RECURSIVE SplitFrom(_, _, _, _)
SplitFrom(s, i, cur, acc) ==
    IF i > Len(s) THEN Append(acc, cur)
    ELSE IF IsDelim(s[i])
         THEN IF i > 1 /\ IsDelim(s[i - 1])
              THEN SplitFrom(s, i + 1, cur, acc)
              ELSE SplitFrom(s, i + 1, << >>, Append(acc, cur))
         ELSE SplitFrom(s, i + 1, Append(cur, s[i]), acc)

re_split(s) == SplitFrom(s, 1, << >>, << >>)

Range(q) == {q[i] : i \in DOMAIN q}

\* sorted(S) for a set of strings
RECURSIVE sorted(_)
sorted(S) ==
    IF S = {} THEN << >>
    ELSE LET m == CHOOSE a \in S : \A b \in S \ {a} : StrLess(a, b)
         IN  << m >> \o sorted(S \ {m})

IsBlank(t) == strip(t) = << >>

\* tokens = [normalize_mawb(t) for t in tokens if str(t).strip()]
NormalizedTokens(text) ==
    LET tokens == SelectSeq(re_split(strip(text)), LAMBDA t : ~IsBlank(t))
    IN  [i \in DOMAIN tokens |-> normalize_mawb(tokens[i])]

parse_mawb_list(text) ==
    IF text = NoneVal \/ text = << >> \/ strip(text) = << >> THEN << >>
    ELSE sorted(Range(NormalizedTokens(text)) \ { << >> })

-----------------------------------------------------------------------------
(* Column resolution: helpers.norm_colname, find_first_col,                *)
(* find_sheet_with_required_cols                                           *)

MinOf(S) == CHOOSE x \in S : \A y \in S : x <= y

MaxOf(S) == CHOOSE x \in S : \A y \in S : y <= x

IsColNoise(c) == c \in Whitespace \cup {"_", "-"}

\* re.sub(r"[\s_\-]+", "", str(s).strip().lower())
norm_colname(s) == SelectSeq(lower(strip(s)), LAMBDA c : ~IsColNoise(c))

\* mapping = {norm_colname(c): c for c in df.columns}: of the columns with one
\* normalised name the dict keeps the last.  The first candidate with an entry
\* decides; "" when none has one.
find_first_col(columns, candidates) ==
    LET names == [i \in DOMAIN columns |-> norm_colname(columns[i])]
        keys == [k \in DOMAIN candidates |-> norm_colname(candidates[k])]
        hits == {k \in DOMAIN candidates : \E i \in DOMAIN names : names[i] = keys[k]}
    IN  IF hits = {} THEN << >>
        ELSE LET key == keys[MinOf(hits)]
             IN  columns[MaxOf({i \in DOMAIN names : names[i] = key})]

\* A workbook is a sequence of sheets [name, readable, columns, rows]; a row
\* is a sequence of cells, one per column.  required is the sequence of the
\* candidate lists of the required fields.
SheetOk(sh, required) ==
    /\ sh.readable
    /\ \A f \in DOMAIN required : find_first_col(sh.columns, required[f]) # << >>

\* find_sheet_with_required_cols with a return in the place of continue: the
\* scan ends at the first sheet, qualified or not
find_sheet_first_only(xls, required) ==
    IF xls # << >> /\ SheetOk(xls[1], required) THEN xls[1].name ELSE ""

find_sheet_with_required_cols(xls, required) ==
    LET ok == {i \in DOMAIN xls : SheetOk(xls[i], required)}
    IN  IF ok = {} THEN "" ELSE xls[MinOf(ok)].name

MAWB_ALIASES ==
    << <<"M", "A", "W", "B">>,
       <<"M", "a", "w", "b">>,
       <<"M", "a", "s", "t", "e", "r", " ", "A", "W", "B">>,
       <<"M", "a", "s", "t", "e", "r", "A", "W", "B">> >>

COST_ALIASES ==
    << <<"C", "o", "s", "t", " ", "A", "m", "o", "u", "n", "t">>,
       <<"C", "o", "s", "t">>,
       <<"A", "P", " ", "A", "m", "o", "u", "n", "t">>,
       <<"T", "o", "t", "a", "l", " ", "C", "o", "s", "t">>,
       <<"C", "o", "s", "t", "A", "m", "o", "u", "n", "t">> >>

SELL_ALIASES ==
    << <<"S", "e", "l", "l", " ", "A", "m", "o", "u", "n", "t">>,
       <<"S", "e", "l", "l">>,
       <<"A", "R", " ", "A", "m", "o", "u", "n", "t">>,
       <<"T", "o", "t", "a", "l", " ", "S", "e", "l", "l">>,
       <<"S", "e", "l", "l", "A", "m", "o", "u", "n", "t">> >>

CLIENT_ALIASES ==
    << <<"C", "l", "i", "e", "n", "t">>,
       <<"C", "u", "s", "t", "o", "m", "e", "r">>,
       <<"A", "c", "c", "o", "u", "n", "t">>,
       <<"S", "h", "i", "p", "p", "e", "r">>,
       <<"B", "i", "l", "l", " ", "T", "o">>,
       <<"B", "i", "l", "l", "e", "d", " ", "T", "o">> >>

CHARGE_CODE_ALIASES ==
    << <<"C", "h", "a", "r", "g", "e", " ", "C", "o", "d", "e">>,
       <<"C", "h", "a", "r", "g", "e", "C", "o", "d", "e">>,
       <<"C", "h", "a", "r", "g", "e">>,
       <<"C", "o", "d", "e">> >>

VENDOR_ALIASES ==
    << <<"V", "e", "n", "d", "o", "r">>,
       <<"C", "a", "r", "r", "i", "e", "r">>,
       <<"S", "u", "p", "p", "l", "i", "e", "r">> >>

ETA_ALIASES ==
    << <<"E", "T", "A">>,
       <<"E", "t", "a">>,
       <<"E", "s", "t", "i", "m", "a", "t", "e", "d", " ", "T", "i", "m", "e", " ", "o", "f", " ", "A", "r", "r", "i", "v", "a", "l">>,
       <<"A", "r", "r", "i", "v", "a", "l">>,
       <<"A", "r", "r", "i", "v", "a", "l", " ", "D", "a", "t", "e">>,
       <<"E", "T", "A", " ", "D", "a", "t", "e">> >>

BILLING_REQUIRED == << MAWB_ALIASES, COST_ALIASES, SELL_ALIASES >>

ETA_REQUIRED == << MAWB_ALIASES, ETA_ALIASES >>

-----------------------------------------------------------------------------
(* Cells, amounts, dates and ratios                                        *)

\* A text cell is a string and an empty cell is NoneVal (pandas reads it as
\* NaN, whose str() is "nan").  A cell of an amount column is [num |-> n]
\* when it holds a number and [text |-> s] when it holds anything else; a
\* cell of the ETA column is [date |-> d] when clean_eta_series parses it to
\* day d and [text |-> s] when it does not.
str(x) == IF x = NoneVal THEN <<"n", "a", "n">> ELSE x

\* pd.to_numeric(s, errors="coerce").fillna(0), on one cell
safe_numeric(c) == IF "num" \in DOMAIN c THEN c.num ELSE 0

\* A date is a day number >= 1; NaT is 0, so that the max of a group is NaT
\* exactly when every date of the group is NaT (max skips NaT).
ETA_LABEL == <<"E", "T", "A">>

NaT == 0

\* clean_eta_series, on one cell
clean_eta_series(c) == IF "date" \in DOMAIN c THEN c.date ELSE NaT

UNKNOWN == <<"U", "N", "K", "N", "O", "W", "N">>

\* df[col].astype(str).str.strip(), then "", "nan", "None" made "UNKNOWN"
CleanLabel(c) ==
    LET t == strip(str(c))
    IN  IF t \in { << >>, <<"n", "a", "n">>, <<"N", "o", "n", "e">> } THEN UNKNOWN ELSE t

\* A ratio is a fraction with a positive denominator.
Frac(n, d) == IF d > 0 THEN [num |-> n, den |-> d] ELSE [num |-> -n, den |-> -d]

Zero == [num |-> 0, den |-> 1]

\* pct with the guard left out: the division by zero gives inf or NaN
pct_unguarded(numer, denom) ==
    IF denom # 0 THEN Frac(numer, denom) ELSE [num |-> numer, den |-> 0]

\* helpers.pct: (numer / denom).where(denom != 0, 0)
pct(numer, denom) == IF denom # 0 THEN Frac(numer, denom) ELSE Zero

\* r < thr, r > thr and r != 0, for a threshold in hundredths
RatLt(r, thr) == r.num * 100 < thr * r.den

RatGt(r, thr) == r.num * 100 > thr * r.den

RatNonZero(r) == r.num # 0

-----------------------------------------------------------------------------
(* Data frames: sequences of records                                       *)

RECURSIVE Sum(_)
Sum(q) == IF q = << >> THEN 0 ELSE Head(q) + Sum(Tail(q))

RECURSIVE Concat(_)
Concat(qq) == IF qq = << >> THEN << >> ELSE Head(qq) \o Concat(Tail(qq))

\* groupby(key): the groups in the order of their sorted keys, each holding
\* its rows in the order of the frame
GroupBy(q, Key(_)) ==
    LET keys == sorted({Key(q[i]) : i \in DOMAIN q})
    IN  [k \in DOMAIN keys |-> SelectSeq(q, LAMBDA r : Key(r) = keys[k])]

\* Series.nunique
NUnique(q, Key(_)) == Cardinality({Key(q[i]) : i \in DOMAIN q})

\* sort_values: rows that compare equal keep their order
SortBy(q, Before(_, _)) ==
    LET Rank(a) == 1 + Cardinality({b \in DOMAIN q :
                        Before(q[b], q[a]) \/ (~Before(q[a], q[b]) /\ b < a)})
    IN  [k \in DOMAIN q |-> q[CHOOSE a \in DOMAIN q : Rank(a) = k]]

Cell(sh, col, row) == row[CHOOSE i \in DOMAIN sh.columns : sh.columns[i] = col]

Sheet(xls, name) == xls[CHOOSE i \in DOMAIN xls : xls[i].name = name]

-----------------------------------------------------------------------------
(* audit.run_audit, up to the per-identifier summary                       *)

MARGIN_LABEL == "Margin<L% or >H%"

ColOrUnknown(sh, col, row) == IF col = << >> THEN UNKNOWN ELSE CleanLabel(Cell(sh, col, row))

\* Lines 109-145: the billing sheet read and normalised, the lines without an
\* identifier dropped.
NormalizeBilling(sh) ==
    LET mawb_col == find_first_col(sh.columns, MAWB_ALIASES)
        cost_col == find_first_col(sh.columns, COST_ALIASES)
        sell_col == find_first_col(sh.columns, SELL_ALIASES)
        client_col == find_first_col(sh.columns, CLIENT_ALIASES)
        charge_code_col == find_first_col(sh.columns, CHARGE_CODE_ALIASES)
        vendor_col == find_first_col(sh.columns, VENDOR_ALIASES)
        all == [i \in DOMAIN sh.rows |->
                   [MAWB |-> normalize_mawb(Cell(sh, mawb_col, sh.rows[i])),
                    Cost_Amount |-> safe_numeric(Cell(sh, cost_col, sh.rows[i])),
                    Sell_Amount |-> safe_numeric(Cell(sh, sell_col, sh.rows[i])),
                    Client |-> ColOrUnknown(sh, client_col, sh.rows[i]),
                    Charge_Code |-> ColOrUnknown(sh, charge_code_col, sh.rows[i]),
                    Vendor |-> ColOrUnknown(sh, vendor_col, sh.rows[i])]]
    IN  SelectSeq(all, LAMBDA r : r.MAWB # << >>)

\* Lines 103-119: whether run_audit raises ValueError, and with which message.
BillingError(xls) ==
    LET billing_sheet == find_sheet_with_required_cols(xls, BILLING_REQUIRED)
    IN  IF billing_sheet = "" THEN "no sheet"
        ELSE LET sh == Sheet(xls, billing_sheet)
             IN  IF \E f \in DOMAIN BILLING_REQUIRED :
                        find_first_col(sh.columns, BILLING_REQUIRED[f]) = << >>
                 THEN "no columns"
                 ELSE ""

\* Lines 151-154
FilterKeep(q, keep) == SelectSeq(q, LAMBDA r : r.MAWB \in Range(keep))

\* mawb_not_found without the subtraction of the identifiers found
NotFoundWhole(q, keep) == sorted(Range(keep))

\* Lines 152-154
NotFound(q, keep) == sorted(Range(keep) \ {q[i].MAWB : i \in DOMAIN q})

\* Lines 175-178: the two columns of the mapping sheet, cleaned
MappingRows(sh) ==
    LET m_mawb == find_first_col(sh.columns, MAWB_ALIASES)
        m_eta == find_first_col(sh.columns, ETA_ALIASES)
    IN  [i \in DOMAIN sh.rows |->
            [MAWB |-> normalize_mawb(Cell(sh, m_mawb, sh.rows[i])),
             ETA |-> clean_eta_series(Cell(sh, m_eta, sh.rows[i]))]]

\* The mapping with the groupby left out: one entry per row of the source
EtaMapUngrouped(mdf) == mdf

\* Lines 187-191: mdf.dropna(subset=["MAWB"]).groupby("MAWB")["ETA"].max()
\* (normalize_mawb returns no NaN, so dropna drops nothing)
EtaMapOf(mdf) ==
    LET groups == GroupBy(mdf, LAMBDA r : r.MAWB)
    IN  [g \in DOMAIN groups |->
            [MAWB |-> groups[g][1].MAWB,
             ETA |-> MaxOf({groups[g][i].ETA : i \in DOMAIN groups[g]})]]

\* Lines 167-191: the mapping read from the optional file.  No file, no sheet
\* with both fields, and an empty mapping all leave the ETA column empty
\* (line 194), so eta_map = None is the empty sequence here.
ReadEtaMap(file) ==
    IF file = << >> THEN << >>
    ELSE LET map_sheet == find_sheet_with_required_cols(file, ETA_REQUIRED)
         IN  IF map_sheet = "" THEN << >>
             ELSE EtaMapOf(MappingRows(Sheet(file, map_sheet)))

\* Lines 180-185: [bad, total] when some ETA did not parse, else None
EtaParseNote(file) ==
    IF file = << >> THEN << >>
    ELSE LET map_sheet == find_sheet_with_required_cols(file, ETA_REQUIRED)
         IN  IF map_sheet = "" THEN << >>
             ELSE LET mdf == MappingRows(Sheet(file, map_sheet))
                      bad == Len(SelectSeq(mdf, LAMBDA r : r.ETA = NaT))
                  IN  IF Len(mdf) > 0 /\ bad > 0 THEN << bad, Len(mdf) >> ELSE << >>

WithEta(r, eta) ==
    [MAWB |-> r.MAWB, Cost_Amount |-> r.Cost_Amount, Sell_Amount |-> r.Sell_Amount,
     Client |-> r.Client, Charge_Code |-> r.Charge_Code, Vendor |-> r.Vendor, ETA |-> eta]

\* df.merge(eta_map, on="MAWB", how="left"): every line once per entry of the
\* mapping with its identifier, and once with NaT when there is none
LeftMerge(q, map) ==
    Concat([i \in DOMAIN q |->
        LET hits == SelectSeq(map, LAMBDA e : e.MAWB = q[i].MAWB)
        IN  IF hits = << >> THEN << WithEta(q[i], NaT) >>
            ELSE [j \in DOMAIN hits |-> WithEta(q[i], hits[j].ETA)]])

\* Lines 195, 199: the merge suffixes a column that both frames carry beside
\* the key (ETA becomes ETA_x and ETA_y), and df["ETA"] then raises KeyError.
\* df is a copy of the sheet (line 122), so it carries the sheet's columns.
MergeLosesEta(sh, map) == map # << >> /\ \E i \in DOMAIN sh.columns : sh.columns[i] = ETA_LABEL

\* Lines 194-199
MergeEtaInto(q, map) ==
    IF map # << >> THEN LeftMerge(q, map)
    ELSE [i \in DOMAIN q |-> WithEta(q[i], NaT)]

\* is_closed with the band's lower edge excluded
is_closed_strict(r, low, high) ==
    IF ~(r.Total_Cost > 0 /\ r.Total_Sell > 0) THEN "Open"
    ELSE IF ~RatGt(r.Profit_Margin, low) \/ RatGt(r.Profit_Margin, high) THEN "Open"
    ELSE "Closed"

\* is_closed with the two thresholds put in order first
is_closed_sorted(r, low, high) ==
    LET lo == IF low <= high THEN low ELSE high
        hi == IF low <= high THEN high ELSE low
    IN  IF ~(r.Total_Cost > 0 /\ r.Total_Sell > 0) THEN "Open"
        ELSE IF RatLt(r.Profit_Margin, lo) \/ RatGt(r.Profit_Margin, hi) THEN "Open"
        ELSE "Closed"

\* is_closed with the test pm < low_thr left out
is_closed_no_floor(r, low, high) ==
    IF ~(r.Total_Cost > 0 /\ r.Total_Sell > 0) THEN "Open"
    ELSE IF RatGt(r.Profit_Margin, high) THEN "Open"
    ELSE "Closed"

\* Lines 217-223
is_closed(r, low, high) ==
    IF ~(r.Total_Cost > 0 /\ r.Total_Sell > 0) THEN "Open"
    ELSE IF RatLt(r.Profit_Margin, low) \/ RatGt(r.Profit_Margin, high) THEN "Open"
    ELSE "Closed"

\* exception_type with the test pm != 0 left out
exception_type_nonzero_dropped(r, low, high) ==
    IF r.Total_Cost = 0 /\ r.Total_Sell = 0 THEN "Cost=Sell=0"
    ELSE IF r.Total_Sell = 0 THEN "Revenue=0"
    ELSE IF r.Total_Cost = 0 THEN "Cost=0"
    ELSE IF RatLt(r.Profit_Margin, low) \/ RatGt(r.Profit_Margin, high)
    THEN MARGIN_LABEL
    ELSE ""

\* Lines 227-237
exception_type(r, low, high) ==
    IF r.Total_Cost = 0 /\ r.Total_Sell = 0 THEN "Cost=Sell=0"
    ELSE IF r.Total_Sell = 0 THEN "Revenue=0"
    ELSE IF r.Total_Cost = 0 THEN "Cost=0"
    ELSE IF RatNonZero(r.Profit_Margin)
            /\ (RatLt(r.Profit_Margin, low) \/ RatGt(r.Profit_Margin, high))
    THEN MARGIN_LABEL
    ELSE ""

\* Totals with agg "first" in the place of agg "sum" for the two amounts
TotalsFirstLine(g) ==
    LET total_cost == g[1].Cost_Amount
        total_sell == g[1].Sell_Amount
    IN  [MAWB |-> g[1].MAWB,
         Client |-> g[1].Client,
         Total_Cost |-> total_cost,
         Total_Sell |-> total_sell,
         Line_Count |-> Len(g),
         ETA |-> MaxOf({g[i].ETA : i \in DOMAIN g}),
         Profit |-> total_sell - total_cost,
         Profit_Margin |-> pct(total_sell - total_cost, total_sell)]

\* Lines 202-215: one row per identifier (the ETA month label is not modelled)
Totals(g) ==
    LET total_cost == Sum([i \in DOMAIN g |-> g[i].Cost_Amount])
        total_sell == Sum([i \in DOMAIN g |-> g[i].Sell_Amount])
    IN  [MAWB |-> g[1].MAWB,
         Client |-> g[1].Client,
         Total_Cost |-> total_cost,
         Total_Sell |-> total_sell,
         Line_Count |-> Len(g),
         ETA |-> MaxOf({g[i].ETA : i \in DOMAIN g}),
         Profit |-> total_sell - total_cost,
         Profit_Margin |-> pct(total_sell - total_cost, total_sell)]

Classified(r, low, high) ==
    [MAWB |-> r.MAWB, Client |-> r.Client, Total_Cost |-> r.Total_Cost,
     Total_Sell |-> r.Total_Sell, Line_Count |-> r.Line_Count, ETA |-> r.ETA,
     Profit |-> r.Profit, Profit_Margin |-> r.Profit_Margin,
     Classification |-> is_closed(r, low, high),
     Exception_Type |-> exception_type(r, low, high)]

\* Lines 202-239
SummaryOf(q, low, high) ==
    LET groups == GroupBy(q, LAMBDA r : r.MAWB)
    IN  [g \in DOMAIN groups |-> Classified(Totals(groups[g]), low, high)]

-----------------------------------------------------------------------------
(* audit.run_audit: the rollups, the bucket views and the KPIs             *)

\* a < b for two ratios
RatLess(a, b) == a.num * b.den < b.num * a.den

MawbOf(r) == r.MAWB

\* The rollup with Profit taken the wrong way round
DimTotalsSwapped(g, key) ==
    LET total_cost == Sum([i \in DOMAIN g |-> g[i].Cost_Amount])
        total_sell == Sum([i \in DOMAIN g |-> g[i].Sell_Amount])
    IN  [Key |-> key,
         Total_Cost |-> total_cost,
         Total_Sell |-> total_sell,
         Line_Count |-> Len(g),
         MAWB_Count |-> NUnique(g, MawbOf),
         Latest_ETA |-> MaxOf({g[i].ETA : i \in DOMAIN g}),
         Profit |-> total_cost - total_sell,
         Profit_Margin |-> pct(total_cost - total_sell, total_sell)]

\* Lines 244-255, 283-293, 318-328: one row of a rollup by client, charge
\* code or vendor (Latest_ETA is a column of the client rollup only)
DimTotals(g, key) ==
    LET total_cost == Sum([i \in DOMAIN g |-> g[i].Cost_Amount])
        total_sell == Sum([i \in DOMAIN g |-> g[i].Sell_Amount])
    IN  [Key |-> key,
         Total_Cost |-> total_cost,
         Total_Sell |-> total_sell,
         Line_Count |-> Len(g),
         MAWB_Count |-> NUnique(g, MawbOf),
         Latest_ETA |-> MaxOf({g[i].ETA : i \in DOMAIN g}),
         Profit |-> total_sell - total_cost,
         Profit_Margin |-> pct(total_sell - total_cost, total_sell)]

ByProfitDesc(a, b) == a.Profit > b.Profit

\* groupby(dim).agg(...), Profit, Profit Margin %, sort_values("Profit", ascending=False)
DimSummary(q, Dim(_)) ==
    LET groups == GroupBy(q, Dim)
    IN  SortBy([g \in DOMAIN groups |-> DimTotals(groups[g], Dim(groups[g][1]))], ByProfitDesc)

\* The cell of the pivot with the index left out: the identifiers of one
\* exception type, whatever the value of the dimension
PivotCountAnyKey(cc_exc, key, t) == Cardinality({e[1] : e \in {x \in cc_exc : x[3] = t}})

\* Lines 299-306: one cell of pivot_table(index=dimension,
\* columns="Exception_Type", values="MAWB", aggfunc=nunique)
PivotCount(cc_exc, key, t) ==
    Cardinality({e[1] : e \in {x \in cc_exc : x[2] = key /\ x[3] = t}})

\* Lines 297-310, 331-343: the pivot of the identifiers' exception types onto
\* a dimension: per value of the dimension and per exception type found in
\* the summary, the number of distinct identifiers with a line on that value
\* and that type (fill_value=0)
ExceptionPivot(q, summ, Dim(_), key) ==
    LET types == {summ[i].Exception_Type : i \in DOMAIN summ}
        pairs == {<<q[i].MAWB, Dim(q[i])>> : i \in DOMAIN q}
        cc_exc == UNION {{<<p[1], p[2], summ[i].Exception_Type>> :
                            i \in {j \in DOMAIN summ : summ[j].MAWB = p[1]}} : p \in pairs}
    IN  [t \in types |-> PivotCount(cc_exc, key, t)]

\* Lines 312-315, 345: the rollup row with the row of the pivot for its key
\* merged in (how="left", and every key of the rollup is a key of the pivot)
WithExceptions(row, counts) ==
    [Key |-> row.Key, Total_Cost |-> row.Total_Cost, Total_Sell |-> row.Total_Sell,
     Line_Count |-> row.Line_Count, MAWB_Count |-> row.MAWB_Count,
     Profit |-> row.Profit, Profit_Margin |-> row.Profit_Margin,
     Exceptions |-> counts]

DimSummaryWithExceptions(q, summ, Dim(_)) ==
    LET base == DimSummary(q, Dim)
    IN  [i \in DOMAIN base |->
            WithExceptions(base[i], ExceptionPivot(q, summ, Dim, base[i].Key))]

ClientOf(r) == r.Client

ChargeCodeOf(r) == r.Charge_Code

VendorOf(r) == r.Vendor

\* Lines 348-359: one row per (identifier, charge code)
CcMawbTotals(g) ==
    LET total_cost == Sum([i \in DOMAIN g |-> g[i].Cost_Amount])
        total_sell == Sum([i \in DOMAIN g |-> g[i].Sell_Amount])
    IN  [MAWB |-> g[1].MAWB,
         Charge_Code |-> g[1].Charge_Code,
         Client |-> g[1].Client,
         Vendor |-> g[1].Vendor,
         Total_Cost |-> total_cost,
         Total_Sell |-> total_sell,
         ETA |-> MaxOf({g[i].ETA : i \in DOMAIN g}),
         Profit |-> total_sell - total_cost,
         Profit_Margin |-> pct(total_sell - total_cost, total_sell)]

CcMawb(q) ==
    LET by_mawb == GroupBy(q, MawbOf)
    IN  Concat([m \in DOMAIN by_mawb |->
            LET by_code == GroupBy(by_mawb[m], ChargeCodeOf)
            IN  [c \in DOMAIN by_code |-> CcMawbTotals(by_code[c])]])

ByProfitThenSellDesc(a, b) ==
    a.Profit < b.Profit \/ (a.Profit = b.Profit /\ a.Total_Sell > b.Total_Sell)

ByMargin(a, b) == RatLess(a.Profit_Margin, b.Profit_Margin)

ByProfit(a, b) == a.Profit < b.Profit

BySellThenCostDesc(a, b) ==
    a.Total_Sell > b.Total_Sell \/ (a.Total_Sell = b.Total_Sell /\ a.Total_Cost > b.Total_Cost)

ByMawb(a, b) == StrLess(a.MAWB, b.MAWB)

ByCostDesc(a, b) == a.Total_Cost > b.Total_Cost

BySellDesc(a, b) == a.Total_Sell > b.Total_Sell

\* Lines 241-366
ViewsOf(q, summ, low, high) ==
    [exceptions |-> SelectSeq(summ, LAMBDA r : r.Classification = "Open"),
     client_summary |-> DimSummary(q, ClientOf),
     margin_outliers |->
         SortBy(SelectSeq(summ, LAMBDA r :
                    (RatLt(r.Profit_Margin, low) \/ RatGt(r.Profit_Margin, high))
                    /\ RatNonZero(r.Profit_Margin)), ByMargin),
     negative_profit |-> SortBy(SelectSeq(summ, LAMBDA r : r.Profit < 0), ByProfit),
     zero_margin |->
         SortBy(SelectSeq(summ, LAMBDA r : ~RatNonZero(r.Profit_Margin)), BySellThenCostDesc),
     zero_profit |-> SortBy(SelectSeq(summ, LAMBDA r : r.Profit = 0), BySellThenCostDesc),
     both_zero |->
         SortBy(SelectSeq(summ, LAMBDA r : r.Total_Sell = 0 /\ r.Total_Cost = 0), ByMawb),
     sell_zero_only |->
         SortBy(SelectSeq(summ, LAMBDA r : r.Total_Sell = 0 /\ r.Total_Cost > 0), ByCostDesc),
     cost_zero_only |->
         SortBy(SelectSeq(summ, LAMBDA r : r.Total_Cost = 0 /\ r.Total_Sell > 0), BySellDesc),
     chargecode_summary |-> DimSummaryWithExceptions(q, summ, ChargeCodeOf),
     vendor_summary |-> DimSummaryWithExceptions(q, summ, VendorOf),
     cc_mawb |-> CcMawb(q),
     chargecode_profit_le0_mawb |->
         SortBy(SelectSeq(CcMawb(q), LAMBDA r : r.Profit <= 0), ByProfitThenSellDesc)]

\* (a / b) if b else 0
RatioOrZero(a, b) == IF b # 0 THEN Frac(a, b) ELSE Zero

CountOf(summ, Test(_)) == Len(SelectSeq(summ, Test))

\* Lines 369-407
KpiOf(summ) ==
    LET total_mawb == Len(summ)
        closed_cnt == CountOf(summ, LAMBDA r : r.Classification = "Closed")
        total_sell_sum == Sum([i \in DOMAIN summ |-> summ[i].Total_Sell])
        total_profit_sum == Sum([i \in DOMAIN summ |-> summ[i].Profit])
        neg == SelectSeq(summ, LAMBDA r : r.Profit < 0)
    IN  [Total_MAWB |-> total_mawb,
         Closed_Count |-> closed_cnt,
         Closed_Pct |-> RatioOrZero(closed_cnt, total_mawb),
         Open_Count |-> total_mawb - closed_cnt,
         Revenue0_Count |-> CountOf(summ, LAMBDA r : r.Exception_Type = "Revenue=0"),
         Cost0_Count |-> CountOf(summ, LAMBDA r : r.Exception_Type = "Cost=0"),
         CostSell0_Count |-> CountOf(summ, LAMBDA r : r.Exception_Type = "Cost=Sell=0"),
         Margin_Count |-> CountOf(summ, LAMBDA r : r.Exception_Type = MARGIN_LABEL),
         Total_Cost |-> Sum([i \in DOMAIN summ |-> summ[i].Total_Cost]),
         Total_Sell |-> total_sell_sum,
         Total_Profit |-> total_profit_sum,
         Overall_Profit_Margin |-> RatioOrZero(total_profit_sum, total_sell_sum),
         ETA_Filled_Pct |-> RatioOrZero(CountOf(summ, LAMBDA r : r.ETA # NaT), total_mawb),
         Neg_Profit_Count |-> Len(neg),
         Neg_Profit_Amount |-> Sum([i \in DOMAIN neg |-> neg[i].Profit]),
         Neg_Profit_Ratio |-> RatioOrZero(Len(neg), total_mawb)]

-----------------------------------------------------------------------------
(* Inputs of the two helpers                                               *)

\* How many separators an input carries inside a word.
MaxSeps == 1

\* How many tokens a filter text carries.
MaxTokens == 2

W_NAN == <<"N", "A", "N">>

W_NONE == <<"N", "O", "N", "E">>

W_nan == <<"n", "a", "n">>

W_None == <<"N", "o", "n", "e">>

W_abc == <<"a", "b", "c">>

W_ABCDEF == <<"A", "B", "C", "D", "E", "F">>

W_7 == <<"9", "9", "9", "1", "2", "3", "4">>

W_10 == <<"9", "9", "9", "3", "4", "0", "2", "2", "1", "2">>

W_11 == <<"9", "9", "9", "3", "4", "0", "2", "2", "1", "2", "2">>

W_11A == <<"9", "9", "9", "3", "4", "0", "2", "2", "1", "2", "A">>

W_12 == <<"1", "9", "9", "9", "3", "4", "0", "2", "2", "1", "2", "2">>

W_12p == <<"9", "9", "9", "1", "2", "3", "4", "5", "6", "7", "8", "9">>

W_13 == <<"1", "9", "9", "9", "3", "4", "0", "2", "2", "1", "2", "2", "0">>

BaseWords ==
    { << >>, W_NAN, W_NONE, W_nan, W_None, W_abc, W_ABCDEF, W_7, W_10, W_11,
      W_11A, W_12, W_12p, W_13 }

Separators == {"-", " ", ".", "/"}

InsertAt(w, i, c) == SubSeq(w, 1, i) \o << c >> \o SubSeq(w, i + 1, Len(w))

\* The words of W with up to k separators put in, anywhere.
RECURSIVE WithSeps(_, _)
WithSeps(W, k) ==
    IF k = 0 THEN W
    ELSE LET V == WithSeps(W, k - 1)
         IN  V \cup UNION {{InsertAt(w, i, c) : i \in 0..Len(w), c \in Separators} : w \in V}

Pads == { << >>, << " " >> }

\* The inputs the documentation names, beside the generated ones.
NamedInputs == {NoneVal, <<" ", " ", "a", "b", "c", " ">>, <<"\t", "n", "a", "n", "\n">>}

NormInputs ==
    NamedInputs \cup {l \o w \o r : l \in Pads, r \in Pads, w \in WithSeps(BaseWords, MaxSeps)}

T_1 == <<"9", "9", "9", "-", "3", "4", "0", "2", "2", "1", "2", "2">>

T_2 == <<"9", "9", "9", "3", "4", "0", "2", "2", "1", "3", "3">>

T_3a == <<"9", "9", "9">>

T_3b == <<"3", "4", "0", "2", "2", "1", "4", "4">>

TokenWords == {T_1, T_2, T_3a, T_3b, W_11, W_nan, W_abc, <<"A", "B", "C">>, << "-" >>}

Joiners == { << "," >>, << " " >>, << ",", " " >>, << "\n" >> }

Leads == { << >>, << " " >>, << "," >> }

Trails == { << >>, << "\n" >>, << ",", "," >> }

\* The texts of up to k tokens, joined by delimiters.
RECURSIVE TokenTexts(_)
TokenTexts(k) ==
    IF k = 0 THEN { << >> }
    ELSE LET V == TokenTexts(k - 1)
         IN  V \cup TokenWords \cup {v \o j \o t : v \in V \ { << >> }, j \in Joiners, t \in TokenWords}

ExampleText ==
    <<"9", "9", "9", "-", "3", "4", "0", "2", "2", "1", "2", "2", ",", " ",
      "9", "9", "9", "3", "4", "0", "2", "2", "1", "3", "3", "\n",
      "9", "9", "9", " ", "3", "4", "0", "2", "2", "1", "4", "4">>

ParseInputs ==
    {NoneVal, ExampleText}
        \cup {l \o v \o r : l \in Leads, r \in Trails, v \in TokenTexts(MaxTokens)}

-----------------------------------------------------------------------------
(* normalize_mawb applied to an input, and to its own result               *)

Pending == << "pending" >>

NormIdle == nm_pc = "idle" /\ nm_x = NoneVal /\ nm_out = Pending /\ nm_out2 = Pending

ParseIdle == pl_pc = "idle" /\ pl_text = NoneVal /\ pl_out = Pending

\* What run_audit has not computed yet.
NotYet ==
    /\ df = << >>
    /\ mawb_keep = << >>
    /\ mawb_not_found = << >>
    /\ eta_map = << >>
    /\ eta_parse_note = << >>
    /\ summary = << >>
    /\ views = << >>
    /\ kpi = << >>
    /\ error = ""

AuditIdle ==
    /\ pc = "idle"
    /\ billing_file = << >>
    /\ eta_file = << >>
    /\ mawb_text = NoneVal
    /\ low_thr = 0
    /\ high_thr = 0
    /\ NotYet

InitNorm ==
    /\ nm_pc = "call"
    /\ nm_x \in NormInputs
    /\ nm_out = Pending
    /\ nm_out2 = Pending
    /\ ParseIdle
    /\ AuditIdle

Normalize ==
    /\ nm_pc = "call"
    /\ nm_out' = normalize_mawb(nm_x)
    /\ nm_pc' = "once"
    /\ UNCHANGED <<nm_x, nm_out2, pl_vars, au_vars>>

NormalizeAgain ==
    /\ nm_pc = "once"
    /\ nm_out2' = normalize_mawb(nm_out)
    /\ nm_pc' = "twice"
    /\ UNCHANGED <<nm_x, nm_out, pl_vars, au_vars>>

NextNorm == Normalize \/ NormalizeAgain

SpecNorm == InitNorm /\ [][NextNorm]_vars

-----------------------------------------------------------------------------
(* parse_mawb_list applied to a filter text                                *)

InitParse ==
    /\ pl_pc = "call"
    /\ pl_text \in ParseInputs
    /\ pl_out = Pending
    /\ NormIdle
    /\ AuditIdle

ParseList ==
    /\ pl_pc = "call"
    /\ pl_out' = parse_mawb_list(pl_text)
    /\ pl_pc' = "done"
    /\ UNCHANGED <<pl_text, nm_vars, au_vars>>

NextParse == ParseList

SpecParse == InitParse /\ [][NextParse]_vars

-----------------------------------------------------------------------------
(* Inputs of run_audit                                                     *)

\* The range of the amounts of the one-line sheets: -MaxAmt..MaxAmt.
MaxAmt == 4

\* How many lines a sheet of the amount family carries.
MaxLines == 3

\* How many lines a sheet of the client / charge code / vendor family carries.
MaxDimLines == 2

\* How many rows the ETA mapping source carries.
MaxEtaRows == 2

H_MAWB == <<"M", "A", "W", "B">>

H_Cost == <<"C", "o", "s", "t", " ", "A", "m", "o", "u", "n", "t">>

H_Sell == <<"S", "e", "l", "l", " ", "A", "m", "o", "u", "n", "t">>

H_Client == <<"C", "l", "i", "e", "n", "t">>

H_Charge == <<"C", "h", "a", "r", "g", "e", " ", "C", "o", "d", "e">>

H_Vendor == <<"V", "e", "n", "d", "o", "r">>

H_ETA == <<"E", "T", "A">>

H_mawb_alias == <<"m", "a", "s", "t", "e", "r", "_", "a", "w", "b">>

H_ap == <<"A", "P", " ", "A", "m", "o", "u", "n", "t">>

H_ar == <<"a", "r", "-", "a", "m", "o", "u", "n", "t">>

H_Notes == <<"N", "o", "t", "e", "s">>

H_Mawb2 == <<"M", "a", "w", "b">>

H_Arrival == <<"A", "r", "r", "i", "v", "a", "l", " ", "D", "a", "t", "e">>

StdColumns == << H_MAWB, H_Cost, H_Sell, H_Client, H_Charge, H_Vendor >>

Num(n) == [num |-> n]

NotANumber == [text |-> "n/a"]

Row(m, c, s, cl, ch, v) == << m, Num(c), Num(s), cl, ch, v >>

BillingBook(rows) ==
    << [name |-> "Billing", readable |-> TRUE, columns |-> StdColumns, rows |-> rows] >>

EtaBook(rows) ==
    << [name |-> "ETA", readable |-> TRUE, columns |-> << H_MAWB, H_ETA >>, rows |-> rows] >>

SeqsUpTo(S, n) == UNION {[1..k -> S] : k \in 0..n}

\* Two identifiers: 99934022122 (normalised to 999-34022122) and b (to B).
Id_A == W_11

Id_B == << "b" >>

L_K == << "K" >>

L_X == << "X" >>

L_Y == << "Y" >>

L_V == << "V" >>

DefaultThr == << 30, 80 >>

ThrPairs == { <<30, 80>>, <<0, 50>>, <<50, 100>>, <<80, 30>>, <<-100, 80>> }

\* One line, every pair of amounts, every pair of thresholds.
GridBooks ==
    {BillingBook(<< Row(Id_A, c, s, L_K, L_X, L_V) >>) : c \in (-MaxAmt)..MaxAmt, s \in (-MaxAmt)..MaxAmt}

AmtPairs == { <<0, 0>>, <<1, 2>>, <<1, 0>> }

LineRows == {Row(m, a[1], a[2], L_K, L_X, L_V) : m \in {Id_A, Id_B}, a \in AmtPairs}

\* Several lines over two identifiers.
LineBooks == {BillingBook(rows) : rows \in SeqsUpTo(LineRows, MaxLines)}

DimTriples == { <<L_K, L_X, L_V>>, <<L_K, L_Y, L_V>>, <<NoneVal, L_X, << " " >> >> }

DimRows == {Row(m, 1, s, d[1], d[2], d[3]) : m \in {Id_A, Id_B}, s \in {0, 2}, d \in DimTriples}

\* Several lines over two identifiers, two charge codes, two vendors, two clients.
DimBooks == {BillingBook(rows) : rows \in SeqsUpTo(DimRows, MaxDimLines)}

\* The documented scenario: 999-11111111 with cost 100 / sell 150 and cost 50 / sell 0.
Id_S == <<"9", "9", "9", "-", "1", "1", "1", "1", "1", "1", "1", "1">>

ScenarioBook ==
    BillingBook(<< Row(Id_S, 100, 150, L_K, L_X, L_V), Row(Id_S, 50, 0, L_K, L_X, L_V) >>)

\* Sheets for the runs with a mapping file and a filter text: an amount that
\* is no number, a line without identifier, an identifier written two ways.
EtaFamilyBooks ==
    { BillingBook(<< Row(Id_A, 1, 2, L_K, L_X, L_V), Row(T_1, 1, 0, L_K, L_Y, L_V),
                     Row(Id_B, 2, 1, L_K, L_X, L_V) >>),
      BillingBook(<< << Id_A, NotANumber, Num(2), L_K, L_X, L_V >>,
                     << << " " >>, Num(1), Num(1), L_K, L_X, L_V >>,
                     << Id_B, Num(0), NotANumber, NoneVal, L_X, L_V >> >>) }

EtaCells == { [date |-> 1], [date |-> 2], [text |-> "tbd"] }

EtaRows == {<< m, e >> : m \in {Id_A, T_1}, e \in EtaCells} \cup { << Id_B, [date |-> 1] >> }

EtaFiles == { << >> } \cup {EtaBook(rows) : rows \in SeqsUpTo(EtaRows, MaxEtaRows)}

\* An identifier no sheet carries.
Id_Absent == <<"9", "9", "9", "-", "9", "9", "9", "9", "9", "9", "9", "9">>

FilterTexts ==
    { << >>, << " " >>, T_1, << "b", ",", "C" >>, W_nan, W_11 \o << "\n" >> \o << "B" >>,
      Id_Absent }

\* Workbooks whose headers need resolving: no sheet, no sheet with the three
\* required fields, an unreadable sheet before a good one, alias headers
\* without the optional columns, two columns with one normalised name.
OddBooks ==
    { << >>,
      << [name |-> "Notes", readable |-> TRUE, columns |-> << H_MAWB, H_Cost, H_Notes >>,
          rows |-> << << Id_A, Num(1), << "x" >> >> >>] >>,
      << [name |-> "Broken", readable |-> FALSE, columns |-> StdColumns, rows |-> << >>],
         [name |-> "Cover", readable |-> TRUE, columns |-> << H_Notes >>, rows |-> << >>],
         [name |-> "Data", readable |-> TRUE, columns |-> << H_ar, H_mawb_alias, H_ap >>,
          rows |-> << << Num(3), Id_A, Num(1) >>, << Num(0), Id_B, Num(2) >> >>] >>,
      << [name |-> "Twice", readable |-> TRUE,
          columns |-> << H_MAWB, H_Cost, H_Sell, H_Mawb2 >>,
          rows |-> << << Id_A, Num(1), Num(2), Id_B >> >>] >> }

\* A billing sheet that has an ETA column of its own, and the mapping files
\* it is run with: none, one with an entry, one without rows, one without a
\* mapping sheet.
EtaColumnBooks ==
    { << [name |-> "Billing", readable |-> TRUE, columns |-> StdColumns \o << H_ETA >>,
          rows |-> << Row(Id_A, 1, 2, L_K, L_X, L_V) \o << [date |-> 1] >>,
                      Row(Id_B, 2, 1, L_K, L_Y, L_V) \o << [text |-> "tbd"] >> >>] >> }

EtaColumnFiles ==
    { << >>, EtaBook(<< << Id_A, [date |-> 2] >> >>), EtaBook(<< >>),
      << [name |-> "Cover", readable |-> TRUE, columns |-> << H_Notes >>, rows |-> << >>] >> }

OddEtaFiles ==
    { << [name |-> "Cover", readable |-> TRUE, columns |-> << H_Notes >>, rows |-> << >>] >>,
      << [name |-> "Arrivals", readable |-> TRUE, columns |-> << H_Arrival, H_Mawb2 >>,
          rows |-> << << [date |-> 2], Id_A >> >>] >> }

-----------------------------------------------------------------------------
(* run_audit, one action per section of the function                       *)

InitAudit ==
    /\ pc = "start"
    /\ \/ /\ billing_file \in GridBooks
          /\ \E t \in ThrPairs : low_thr = t[1] /\ high_thr = t[2]
          /\ eta_file = << >>
          /\ mawb_text = << >>
       \/ /\ billing_file \in LineBooks \cup DimBooks \cup {ScenarioBook}
          /\ low_thr = DefaultThr[1] /\ high_thr = DefaultThr[2]
          /\ eta_file = << >>
          /\ mawb_text = << >>
       \/ /\ billing_file \in EtaFamilyBooks
          /\ low_thr = DefaultThr[1] /\ high_thr = DefaultThr[2]
          /\ eta_file \in EtaFiles
          /\ mawb_text \in FilterTexts
       \/ /\ billing_file \in EtaColumnBooks
          /\ low_thr = DefaultThr[1] /\ high_thr = DefaultThr[2]
          /\ eta_file \in EtaColumnFiles
          /\ mawb_text \in { << >>, T_1 }
       \/ /\ billing_file \in OddBooks
          /\ low_thr = DefaultThr[1] /\ high_thr = DefaultThr[2]
          /\ eta_file \in { << >> } \cup OddEtaFiles
          /\ mawb_text \in { << >>, NoneVal }
    /\ NotYet
    /\ NormIdle
    /\ ParseIdle

\* Lines 101-119, the error outcome
RaiseInputError ==
    /\ pc = "start"
    /\ BillingError(billing_file) # ""
    /\ error' = BillingError(billing_file)
    /\ pc' = "raised"
    /\ UNCHANGED <<nm_vars, pl_vars, in_vars, df, mawb_keep, mawb_not_found, eta_map,
                   eta_parse_note, summary, views, kpi>>

\* Lines 101-145
ReadBilling ==
    /\ pc = "start"
    /\ BillingError(billing_file) = ""
    /\ df' = NormalizeBilling(Sheet(billing_file,
                  find_sheet_with_required_cols(billing_file, BILLING_REQUIRED)))
    /\ pc' = "billing"
    /\ UNCHANGED <<nm_vars, pl_vars, in_vars, mawb_keep, mawb_not_found, eta_map,
                   eta_parse_note, summary, views, kpi, error>>

\* The filter with the test "if mawb_keep" left out: an empty allow-list
\* keeps no line
FilterMawbAlways ==
    /\ pc = "billing"
    /\ mawb_keep' = parse_mawb_list(mawb_text)
    /\ df' = FilterKeep(df, mawb_keep')
    /\ mawb_not_found' = NotFound(df', mawb_keep')
    /\ pc' = "filtered"
    /\ UNCHANGED <<nm_vars, pl_vars, in_vars, eta_map, eta_parse_note, summary, views,
                   kpi, error>>

\* Lines 147-161
FilterMawb ==
    /\ pc = "billing"
    /\ mawb_keep' = parse_mawb_list(mawb_text)
    /\ IF mawb_keep' # << >>
       THEN /\ df' = FilterKeep(df, mawb_keep')
            /\ mawb_not_found' = NotFound(df', mawb_keep')
       ELSE /\ df' = df
            /\ mawb_not_found' = << >>
    /\ pc' = "filtered"
    /\ UNCHANGED <<nm_vars, pl_vars, in_vars, eta_map, eta_parse_note, summary, views,
                   kpi, error>>

\* Lines 163-191
ReadEta ==
    /\ pc = "filtered"
    /\ eta_map' = ReadEtaMap(eta_file)
    /\ eta_parse_note' = EtaParseNote(eta_file)
    /\ pc' = "eta"
    /\ UNCHANGED <<nm_vars, pl_vars, in_vars, df, mawb_keep, mawb_not_found, summary,
                   views, kpi, error>>

\* Lines 195-199, the KeyError outcome
RaiseMergeError ==
    /\ pc = "eta"
    /\ MergeLosesEta(Sheet(billing_file,
                        find_sheet_with_required_cols(billing_file, BILLING_REQUIRED)), eta_map)
    /\ error' = "KeyError: ETA"
    /\ pc' = "raised"
    /\ UNCHANGED <<nm_vars, pl_vars, in_vars, df, mawb_keep, mawb_not_found, eta_map,
                   eta_parse_note, summary, views, kpi>>

\* Lines 193-199
MergeEta ==
    /\ pc = "eta"
    /\ ~MergeLosesEta(Sheet(billing_file,
                         find_sheet_with_required_cols(billing_file, BILLING_REQUIRED)), eta_map)
    /\ df' = MergeEtaInto(df, eta_map)
    /\ pc' = "merged"
    /\ UNCHANGED <<nm_vars, pl_vars, in_vars, mawb_keep, mawb_not_found, eta_map,
                   eta_parse_note, summary, views, kpi, error>>

\* Lines 201-239
Summarize ==
    /\ pc = "merged"
    /\ summary' = SummaryOf(df, low_thr, high_thr)
    /\ pc' = "summary"
    /\ UNCHANGED <<nm_vars, pl_vars, in_vars, df, mawb_keep, mawb_not_found, eta_map,
                   eta_parse_note, views, kpi, error>>

\* Lines 241-366
BuildViews ==
    /\ pc = "summary"
    /\ views' = ViewsOf(df, summary, low_thr, high_thr)
    /\ pc' = "views"
    /\ UNCHANGED <<nm_vars, pl_vars, in_vars, df, mawb_keep, mawb_not_found, eta_map,
                   eta_parse_note, summary, kpi, error>>

\* Lines 368-459
Return ==
    /\ pc = "views"
    /\ kpi' = KpiOf(summary)
    /\ pc' = "returned"
    /\ UNCHANGED <<nm_vars, pl_vars, in_vars, df, mawb_keep, mawb_not_found, eta_map,
                   eta_parse_note, summary, views, error>>

Next ==
    \/ RaiseInputError
    \/ ReadBilling
    \/ FilterMawb
    \/ ReadEta
    \/ RaiseMergeError
    \/ MergeEta
    \/ Summarize
    \/ BuildViews
    \/ Return

Spec == InitAudit /\ [][Next]_vars

-----------------------------------------------------------------------------
(* Claims about normalize_mawb and parse_mawb_list                         *)

NormDone == nm_pc \in {"once", "twice"}

\* C7: normalize_mawb is idempotent: applying it to its own result changes
\* nothing, for every input (separators inside NAN or NONE included).
C7_Idempotent == nm_pc = "twice" => nm_out2 = nm_out

\* The input's alphanumeric characters, upper-cased, in order.
AlnumOf(x) ==
    LET t == upper(x)
        idx == {i \in DOMAIN t : t[i] \in Digits \cup Uppers}
    IN  [k \in 1..Cardinality(idx) |->
            t[CHOOSE i \in idx : Cardinality({j \in idx : j <= i}) = k]]

AllDigits(a) == \A i \in DOMAIN a : a[i] \in Digits

\* r is the 3+8 split of the 11 digits of a that start after position off.
IsSplitOf(r, a, off) ==
    /\ Len(r) = 12
    /\ r[4] = "-"
    /\ \A i \in 1..3 : r[i] = a[off + i]
    /\ \A i \in 5..12 : r[i] = a[off + i - 1]

IsMissing(x) ==
    \/ x = NoneVal
    \/ LET t == upper(strip(x)) IN t = << >> \/ t = W_NAN \/ t = W_NONE

\* C8: normalize_mawb returns '' for None, blank, NAN and NONE (after trim
\* and upper-case); otherwise, with the non-alphanumeric characters
\* stripped, 11 digits become the 3+8 split, 12 digits lose the leading
\* digit and become the same split, and anything else is returned stripped;
\* the four documented examples hold.
C8_NormalizeContract ==
    NormDone =>
        /\ IF IsMissing(nm_x) THEN nm_out = << >>
           ELSE LET a == AlnumOf(nm_x)
                IN  IF AllDigits(a) /\ Len(a) = 11 THEN IsSplitOf(nm_out, a, 0)
                    ELSE IF AllDigits(a) /\ Len(a) = 12 THEN IsSplitOf(nm_out, a, 1)
                    ELSE nm_out = a
        /\ nm_x = W_11 => nm_out = T_1
        /\ nm_x = T_1 => nm_out = T_1
        /\ nm_x = <<" ", " ", "a", "b", "c", " ">> => nm_out = <<"A", "B", "C">>
        /\ nm_x = NoneVal => nm_out = << >>

\* C8's case: a 12-digit input has lost its leading digit and been split.
C8_Witness == nm_pc = "once" /\ nm_x = W_12 /\ nm_out = T_1

\* x is PPP-REST: three alphanumerics, a hyphen, then alphanumerics, already
\* trimmed and upper-case.
IsPrefixHyphenForm(x) ==
    /\ x # NoneVal
    /\ Len(x) >= 5
    /\ x[4] = "-"
    /\ \A i \in DOMAIN x : i # 4 => x[i] \in Digits \cup Uppers

\* C9: an already-hyphenated value with a 3-character prefix segment is
\* returned as it is, whether or not it is 11 digits.
C9_HyphenatedPreserved == (NormDone /\ IsPrefixHyphenForm(nm_x)) => nm_out = nm_x

ExampleResult ==
    << <<"9", "9", "9", "-", "3", "4", "0", "2", "2", "1", "2", "2">>,
       <<"9", "9", "9", "-", "3", "4", "0", "2", "2", "1", "3", "3">>,
       <<"9", "9", "9", "-", "3", "4", "0", "2", "2", "1", "4", "4">> >>

\* The maximal runs of non-delimiter characters of a text.
TokensOf(text) ==
    {SubSeq(text, i, j) : i \in DOMAIN text, j \in DOMAIN text} \cap
    {SubSeq(text, i, j) : i \in {k \in DOMAIN text : ~IsDelim(text[k]) /\ (k = 1 \/ IsDelim(text[k - 1]))},
                          j \in {k \in DOMAIN text : ~IsDelim(text[k]) /\ (k = Len(text) \/ IsDelim(text[k + 1]))}}

\* C10: parse_mawb_list yields, on the example text, exactly the three
\* hyphenated identifiers; and its result is always sorted, duplicate-free,
\* without the empty string, each element the normalize_mawb image of one
\* token of the input.
C10_ParseContract ==
    pl_pc = "done" =>
        /\ pl_text = ExampleText => pl_out = ExampleResult
        /\ \A i \in 1..(Len(pl_out) - 1) : StrLess(pl_out[i], pl_out[i + 1])
        /\ \A i \in DOMAIN pl_out : pl_out[i] # << >>
        /\ pl_text # NoneVal =>
               \A i \in DOMAIN pl_out :
                   \E t \in TokensOf(pl_text) : pl_out[i] = normalize_mawb(t)

-----------------------------------------------------------------------------
(* Claims about run_audit                                                   *)

SummaryReady == pc \in {"summary", "views", "returned"}

\* Profit / Total_Sell < thr / 100, the ratio of a sell of zero being 0
MarginLt(r, thr) ==
    IF r.Total_Sell > 0 THEN 100 * r.Profit < thr * r.Total_Sell
    ELSE IF r.Total_Sell < 0 THEN 100 * r.Profit > thr * r.Total_Sell
    ELSE 0 < thr

\* Profit / Total_Sell > thr / 100, the ratio of a sell of zero being 0
MarginGt(r, thr) ==
    IF r.Total_Sell > 0 THEN 100 * r.Profit > thr * r.Total_Sell
    ELSE IF r.Total_Sell < 0 THEN 100 * r.Profit < thr * r.Total_Sell
    ELSE 0 > thr

MarginIsZero(r) == r.Total_Sell = 0 \/ r.Profit = 0

\* C1: every summary row is Closed exactly when Total_Cost > 0, Total_Sell > 0
\* and low_thr <= Profit / Total_Sell <= high_thr, and Open in every other
\* case, whatever the thresholds.
C1_ClosedIff ==
    SummaryReady =>
        \A i \in DOMAIN summary :
            LET r == summary[i]
            IN  /\ r.Classification \in {"Closed", "Open"}
                /\ r.Classification = "Closed"
                      <=> /\ r.Total_Cost > 0
                          /\ r.Total_Sell > 0
                          /\ ~MarginLt(r, low_thr)
                          /\ ~MarginGt(r, high_thr)

\* A Closed row with a nonzero margin that sits on the lower threshold was
\* produced.
C1_Witness ==
    /\ SummaryReady
    /\ \E i \in DOMAIN summary :
          /\ summary[i].Classification = "Closed"
          /\ summary[i].Profit # 0
          /\ 100 * summary[i].Profit = low_thr * summary[i].Total_Sell

ExpectedException(r) ==
    IF r.Total_Cost = 0 /\ r.Total_Sell = 0 THEN "Cost=Sell=0"
    ELSE IF r.Total_Sell = 0 THEN "Revenue=0"
    ELSE IF r.Total_Cost = 0 THEN "Cost=0"
    ELSE IF ~MarginIsZero(r) /\ (MarginLt(r, low_thr) \/ MarginGt(r, high_thr))
    THEN "Margin<L% or >H%"
    ELSE ""

\* C2: Exception_Type of every summary row is the value of the first rule that
\* matches, in the order Cost=Sell=0, Revenue=0, Cost=0, margin label, empty;
\* a row whose margin is exactly 0 never carries the margin label.
C2_ExceptionType ==
    SummaryReady =>
        \A i \in DOMAIN summary :
            LET r == summary[i]
            IN  /\ r.Exception_Type = ExpectedException(r)
                /\ MarginIsZero(r) => r.Exception_Type # "Margin<L% or >H%"

\* A row with both totals nonzero, margin 0 below the lower threshold, and no
\* exception label was produced.
C2_Witness ==
    /\ SummaryReady
    /\ \E i \in DOMAIN summary :
          /\ summary[i].Total_Cost # 0
          /\ summary[i].Total_Sell # 0
          /\ summary[i].Profit = 0
          /\ low_thr > 0
          /\ summary[i].Exception_Type = ""

IsScenario ==
    /\ SummaryReady
    /\ billing_file = ScenarioBook
    /\ low_thr = 30
    /\ high_thr = 80

ScenarioRow(label) ==
    /\ Len(summary) = 1
    /\ summary[1].Total_Cost = 150
    /\ summary[1].Total_Sell = 150
    /\ summary[1].Profit = 0
    /\ summary[1].Profit_Margin.num = 0
    /\ summary[1].Classification = "Open"
    /\ summary[1].Exception_Type = label

\* C3 as stated: with thresholds (0.30, 0.80), the lines cost 100 / sell 150 and
\* cost 50 / sell 0 of one identifier give totals 150 / 150, profit 0, margin
\* 0, Open, and the margin label as exception type.
C3_ScenarioMarginLabel == IsScenario => ScenarioRow("Margin<L% or >H%")

\* C3 amended: the same scenario gives totals 150 / 150, profit 0, margin 0,
\* Open, and the empty exception type.
C3_ScenarioNoLabel == IsScenario => ScenarioRow("")

C3_Witness == IsScenario /\ pc = "returned" /\ Len(summary) = 1 /\ summary[1].Line_Count = 2

\* The billing lines that survive the filtering, before the ETA join
SurvivingLines ==
    LET sh == Sheet(billing_file, find_sheet_with_required_cols(billing_file, BILLING_REQUIRED))
        keep == parse_mawb_list(mawb_text)
    IN  IF keep # << >> THEN FilterKeep(NormalizeBilling(sh), keep) ELSE NormalizeBilling(sh)

\* C4: the Total_Sell of the summary rows add up to the Sell Amount of the
\* billing lines that survive the filtering, the Total_Cost to their Cost
\* Amount, and the lines after the ETA join are those lines, one for one, also
\* when the mapping source repeats an identifier.
C4_Conservation ==
    SummaryReady =>
        LET lines == SurvivingLines
        IN  /\ Len(df) = Len(lines)
            /\ \A i \in DOMAIN lines :
                  /\ df[i].MAWB = lines[i].MAWB
                  /\ df[i].Cost_Amount = lines[i].Cost_Amount
                  /\ df[i].Sell_Amount = lines[i].Sell_Amount
            /\ Sum([i \in DOMAIN summary |-> summary[i].Total_Sell])
                  = Sum([i \in DOMAIN lines |-> lines[i].Sell_Amount])
            /\ Sum([i \in DOMAIN summary |-> summary[i].Total_Cost])
                  = Sum([i \in DOMAIN lines |-> lines[i].Cost_Amount])
            /\ Sum([i \in DOMAIN summary |-> summary[i].Line_Count]) = Len(lines)

\* The mapping source names one identifier on two rows with two dates, a
\* surviving billing line with a nonzero sell carries that identifier, and
\* the filter dropped another line.
C4_Witness ==
    /\ SummaryReady
    /\ eta_file # << >>
    /\ LET mdf == MappingRows(Sheet(eta_file, find_sheet_with_required_cols(eta_file, ETA_REQUIRED)))
       IN  \E i, j \in DOMAIN mdf :
              /\ i # j
              /\ mdf[i].MAWB = mdf[j].MAWB
              /\ mdf[i].ETA # mdf[j].ETA
              /\ \E k \in DOMAIN df : df[k].MAWB = mdf[i].MAWB /\ df[k].Sell_Amount # 0
    /\ mawb_keep # << >>
    /\ Len(df) < Len(billing_file[1].rows)

ProfitHolds(q) == \A i \in DOMAIN q : q[i].Profit = q[i].Total_Sell - q[i].Total_Cost

ViewsReady == pc \in {"views", "returned"}

\* C5: Profit = Total_Sell - Total_Cost in every row of the summary, of the
\* client, charge code and vendor summaries (the exception counts merged in)
\* and of the (identifier, charge code) rollup.
C5_ProfitIdentity ==
    /\ SummaryReady => ProfitHolds(summary)
    /\ ViewsReady =>
          /\ ProfitHolds(views.client_summary)
          /\ ProfitHolds(views.chargecode_summary)
          /\ ProfitHolds(views.vendor_summary)
          /\ ProfitHolds(views.cc_mawb)

\* Two charge codes with exception counts merged in, one of them with a
\* nonzero Profit, next to a client row, a vendor row and a rollup row with a
\* nonzero Profit.
C5_Witness ==
    /\ ViewsReady
    /\ Len(views.chargecode_summary) = 2
    /\ \E i \in DOMAIN views.chargecode_summary :
          /\ views.chargecode_summary[i].Profit # 0
          /\ \E t \in DOMAIN views.chargecode_summary[i].Exceptions :
                views.chargecode_summary[i].Exceptions[t] > 0
    /\ \E i \in DOMAIN views.vendor_summary : views.vendor_summary[i].Profit # 0
    /\ \E i \in DOMAIN views.client_summary : views.client_summary[i].Profit # 0
    /\ \E i \in DOMAIN views.cc_mawb : views.cc_mawb[i].Profit # 0
    /\ \E i \in DOMAIN summary : summary[i].Profit # 0

IsZeroRatio(r) == r.num = 0 /\ r.den # 0

ZeroSellZeroMargin(q) ==
    \A i \in DOMAIN q : q[i].Total_Sell = 0 => IsZeroRatio(q[i].Profit_Margin)

\* C6: a ratio with denominator 0 is 0: the margin of every summary and
\* rollup row with Total_Sell = 0, the overall margin when the summed sell is
\* 0, and the closed, ETA-filled and negative-profit ratios when there is no
\* identifier.
C6_ZeroDenominator ==
    /\ SummaryReady => ZeroSellZeroMargin(summary)
    /\ ViewsReady =>
          /\ ZeroSellZeroMargin(views.client_summary)
          /\ ZeroSellZeroMargin(views.chargecode_summary)
          /\ ZeroSellZeroMargin(views.vendor_summary)
          /\ ZeroSellZeroMargin(views.cc_mawb)
    /\ pc = "returned" =>
          /\ kpi.Total_Sell = 0 => IsZeroRatio(kpi.Overall_Profit_Margin)
          /\ kpi.Total_MAWB = 0 =>
                /\ IsZeroRatio(kpi.Closed_Pct)
                /\ IsZeroRatio(kpi.ETA_Filled_Pct)
                /\ IsZeroRatio(kpi.Neg_Profit_Ratio)

\* A run returned with a summary row, a charge code row and an overall sell
\* of 0 under a nonzero profit.
C6_Witness ==
    /\ pc = "returned"
    /\ \E i \in DOMAIN summary : summary[i].Total_Sell = 0 /\ summary[i].Profit # 0
    /\ \E i \in DOMAIN views.chargecode_summary :
          /\ views.chargecode_summary[i].Total_Sell = 0
          /\ views.chargecode_summary[i].Profit # 0
    /\ kpi.Total_Sell = 0
    /\ kpi.Total_Profit # 0

-----------------------------------------------------------------------------
(* Claims about the filter, the column and sheet resolution, the outcomes   *)

\* The filter has just run, or the run is over
Filtered == pc \in {"filtered", "returned"}

\* The identifiers of the billing lines before the filter
DataIds ==
    LET sh == Sheet(billing_file, find_sheet_with_required_cols(billing_file, BILLING_REQUIRED))
        lines == NormalizeBilling(sh)
    IN  {lines[i].MAWB : i \in DOMAIN lines}

IsDupFree(q) == \A i, j \in DOMAIN q : q[i] = q[j] => i = j

BillingSheet ==
    Sheet(billing_file, find_sheet_with_required_cols(billing_file, BILLING_REQUIRED))

\* The first column, in column order, whose normalised header is the
\* normalised form of the earliest candidate that matches any column
FirstColumnOf(columns, candidates) ==
    LET headers == [i \in DOMAIN columns |-> norm_colname(columns[i])]
        wanted == [k \in DOMAIN candidates |-> norm_colname(candidates[k])]
        Matches(k) == {i \in DOMAIN columns : headers[i] = wanted[k]}
        hits == {k \in DOMAIN candidates : Matches(k) # {}}
    IN  IF hits = {} THEN << >>
        ELSE LET k == CHOOSE x \in hits : \A y \in hits : x <= y
                 cols == Matches(k)
             IN  columns[CHOOSE i \in cols : \A j \in cols : i <= j]

AliasLists ==
    << MAWB_ALIASES, COST_ALIASES, SELL_ALIASES, CLIENT_ALIASES, CHARGE_CODE_ALIASES,
       VENDOR_ALIASES, ETA_ALIASES >>

\* C12: on the sheet run_audit has read, find_first_col returns for every
\* candidate list the first column whose normalised header matches the
\* earliest matching candidate, also when several columns share a normalised
\* header, and the empty sentinel when no candidate matches.
C12_FirstColumn ==
    pc = "billing" =>
        \A f \in DOMAIN AliasLists :
            find_first_col(BillingSheet.columns, AliasLists[f])
               = FirstColumnOf(BillingSheet.columns, AliasLists[f])

\* No sheet of the billing workbook reads and resolves MAWB, Cost Amount and
\* Sell Amount
NoSheetResolves ==
    \A i \in DOMAIN billing_file :
        \/ ~billing_file[i].readable
        \/ \E f \in 1..3 : FirstColumnOf(billing_file[i].columns, AliasLists[f]) = << >>

\* C13: a run that raised did so before any filtering, joining or aggregation
\* (nothing of the result exists), a run that returned has its summary, views
\* and KPIs, and the run raises exactly when no billing sheet resolves the
\* three required fields.
C13_TwoOutcomes ==
    /\ pc = "raised" =>
          /\ NoSheetResolves
          /\ df = << >> /\ mawb_keep = << >> /\ eta_map = << >>
          /\ summary = << >> /\ views = << >> /\ kpi = << >>
    /\ pc = "returned" => (~NoSheetResolves /\ views # << >> /\ kpi # << >>)

\* Every required field has a column on the sheet, and the sheet reads
Qualifies(sh, required) ==
    /\ sh.readable
    /\ \A f \in DOMAIN required :
          \E i \in DOMAIN sh.columns : \E k \in DOMAIN required[f] :
              norm_colname(sh.columns[i]) = norm_colname(required[f][k])

\* name is the first qualifying sheet of the workbook, or "" when there is none
IsFirstQualifying(name, xls, required) ==
    LET good == {i \in DOMAIN xls : Qualifies(xls[i], required)}
    IN  IF good = {} THEN name = ""
        ELSE \E i \in good : name = xls[i].name /\ \A j \in good : i <= j

\* C16: find_sheet_with_required_cols returns the first sheet, in workbook
\* order, that reads and resolves every required field, skipping the sheets
\* that do not, and the empty sentinel only when no sheet qualifies; run_audit
\* raises for the billing workbook exactly in that case.
C16_FirstQualifyingSheet ==
    /\ pc \in {"billing", "raised"} =>
          IsFirstQualifying(find_sheet_with_required_cols(billing_file, BILLING_REQUIRED),
                            billing_file, BILLING_REQUIRED)
    /\ (pc = "raised" /\ df = << >>) =>
          \A i \in DOMAIN billing_file : ~Qualifies(billing_file[i], BILLING_REQUIRED)
    /\ pc = "billing" => \E i \in DOMAIN billing_file : Qualifies(billing_file[i], BILLING_REQUIRED)
    /\ (pc = "eta" /\ eta_file # << >>) =>
          IsFirstQualifying(find_sheet_with_required_cols(eta_file, ETA_REQUIRED),
                            eta_file, ETA_REQUIRED)

\* The billing lines were read from the third sheet of a workbook whose first
\* sheet does not read and whose second sheet lacks the required fields.
C16_Witness ==
    /\ pc = "billing"
    /\ Len(billing_file) = 3
    /\ ~billing_file[1].readable
    /\ ~Qualifies(billing_file[2], BILLING_REQUIRED)
    /\ Qualifies(billing_file[3], BILLING_REQUIRED)
    /\ Len(df) = Len(billing_file[3].rows)
    /\ df # << >>

\* Texts without an identifier: none, empty, blank, a missing-value token
EmptyFilterTexts == { NoneVal, << >>, << " " >>, <<"n", "a", "n">> }

\* C17: a filter text that gives an empty allow-list filters nothing: the
\* billing lines with an identifier are all kept, in their order,
\* mawb_not_found is empty, and the summary has a row when there is a line.
C17_EmptyListNoFilter ==
    /\ (Filtered /\ mawb_text \in EmptyFilterTexts) => mawb_keep = << >>
    /\ (pc = "filtered" /\ mawb_keep = << >>) =>
          /\ df = NormalizeBilling(BillingSheet)
          /\ mawb_not_found = << >>
    /\ (pc = "returned" /\ mawb_keep = << >>) =>
          /\ mawb_not_found = << >>
          /\ {summary[i].MAWB : i \in DOMAIN summary} = {df[i].MAWB : i \in DOMAIN df}

\* The filter text nan gave an empty allow-list and the two lines with an
\* identifier were kept.
C17_Witness ==
    /\ pc = "filtered"
    /\ mawb_text = <<"n", "a", "n">>
    /\ mawb_keep = << >>
    /\ mawb_not_found = << >>
    /\ Len(df) >= 2

-----------------------------------------------------------------------------
(* Claims about the rollups, the bucket views and the thresholds           *)

\* The identifiers with exception type t that have a line whose field Dim is key
CarriersOn(Dim, key, t) ==
    {summary[i].MAWB : i \in {j \in DOMAIN summary :
        /\ summary[j].Exception_Type = t
        /\ \E k \in DOMAIN df : df[k].MAWB = summary[j].MAWB /\ df[k][Dim] = key}}

ExceptionCountsHold(q, Dim) ==
    \A i \in DOMAIN q :
        /\ DOMAIN q[i].Exceptions = {summary[j].Exception_Type : j \in DOMAIN summary}
        /\ \A t \in DOMAIN q[i].Exceptions :
              q[i].Exceptions[t] = Cardinality(CarriersOn(Dim, q[i].Key, t))

\* C14: in the charge code and the vendor summary, the count of every
\* (value, exception type) pair is the number of distinct identifiers that
\* have a line on the value and carry the type: an identifier with several
\* lines on the value counts once, a pair without identifier holds 0.
C14_PivotCounts ==
    ViewsReady =>
        /\ ExceptionCountsHold(views.chargecode_summary, "Charge_Code")
        /\ ExceptionCountsHold(views.vendor_summary, "Vendor")

\* A vendor with three lines of two identifiers, each counted once under its
\* exception type, and a charge code whose count of one type is 0.
C14_Witness ==
    /\ ViewsReady
    /\ \E i \in DOMAIN views.vendor_summary :
          LET r == views.vendor_summary[i]
          IN  /\ r.Line_Count = 3
              /\ r.MAWB_Count = 2
              /\ \A t \in DOMAIN r.Exceptions : r.Exceptions[t] = 1
              /\ Cardinality(DOMAIN r.Exceptions) = 2
    /\ \E i \in DOMAIN views.chargecode_summary :
          \E t \in DOMAIN views.chargecode_summary[i].Exceptions :
              views.chargecode_summary[i].Exceptions[t] = 0

\* C15: with 0 <= low_thr, the negative_profit view is the rows of the
\* summary with Profit < 0, and each of them is Open and a row of the
\* exceptions view, whatever the signs of its totals.
C15_NegativeProfitOpen ==
    (ViewsReady /\ low_thr >= 0) =>
        /\ Range(views.negative_profit) = {summary[i] : i \in {j \in DOMAIN summary : summary[j].Profit < 0}}
        /\ \A i \in DOMAIN views.negative_profit :
              /\ views.negative_profit[i].Classification = "Open"
              /\ \E j \in DOMAIN views.exceptions : views.exceptions[j] = views.negative_profit[i]

\* A row with both totals positive and a negative profit is in both views,
\* with a lower threshold of 0 or more.
C15_Witness ==
    /\ ViewsReady
    /\ low_thr >= 0
    /\ \E i \in DOMAIN views.negative_profit :
          /\ views.negative_profit[i].Total_Cost > 0
          /\ views.negative_profit[i].Total_Sell > 0
          /\ \E j \in DOMAIN views.exceptions : views.exceptions[j] = views.negative_profit[i]

\* C18: a Closed row has the empty exception type, and an Open row has the
\* empty exception type only when its margin is exactly 0, for all totals,
\* negative ones included.
C18_ClassificationAgrees ==
    SummaryReady =>
        \A i \in DOMAIN summary :
            LET r == summary[i]
            IN  /\ r.Classification = "Closed" => r.Exception_Type = ""
                /\ (r.Classification = "Open" /\ r.Exception_Type = "") => MarginIsZero(r)

Tagged(t) == {summary[i] : i \in {j \in DOMAIN summary : summary[j].Exception_Type = t}}

\* C19: both_zero holds exactly the rows tagged Cost=Sell=0, sell_zero_only
\* the rows tagged Revenue=0 and cost_zero_only the rows tagged Cost=0, for
\* all totals, and each KPI exception count is the row count of its view.
C19_BucketsMatchTags ==
    /\ ViewsReady =>
          /\ Range(views.both_zero) = Tagged("Cost=Sell=0")
          /\ Range(views.sell_zero_only) = Tagged("Revenue=0")
          /\ Range(views.cost_zero_only) = Tagged("Cost=0")
    /\ pc = "returned" =>
          /\ kpi.CostSell0_Count = Len(views.both_zero)
          /\ kpi.Revenue0_Count = Len(views.sell_zero_only)
          /\ kpi.Cost0_Count = Len(views.cost_zero_only)

\* C20: a run with low_thr > high_thr goes on to its result, in which no row
\* is Closed: the Closed count is 0 and the exceptions view is the whole
\* summary.
C20_SwappedThresholds ==
    low_thr > high_thr =>
        /\ SummaryReady => \A i \in DOMAIN summary : summary[i].Classification = "Open"
        /\ ViewsReady => views.exceptions = summary
        /\ pc = "returned" => (kpi.Closed_Count = 0 /\ kpi.Open_Count = Len(summary))

\* A run with low_thr > high_thr returned a row with positive totals and a
\* margin between the two thresholds, classified Open.
C20_Witness ==
    /\ pc = "returned"
    /\ low_thr > high_thr
    /\ \E i \in DOMAIN summary :
          /\ summary[i].Total_Cost > 0
          /\ summary[i].Total_Sell > 0
          /\ ~MarginLt(summary[i], high_thr)
          /\ ~MarginGt(summary[i], low_thr)
          /\ summary[i].Classification = "Open"
    /\ kpi.Closed_Count = 0

=============================================================================
